---- MODULE Spec2Model ----
(***************************************************************************)
(* Model of heat_pump_thermo: carnot_cop.py (Carnot heating COP over an    *)
(* ambient sweep) and cop_data.py (synthetic COP scatter around a fitted   *)
(* trend).                                                                 *)
(*                                                                         *)
(* Numbers.  The program computes in IEEE-754 binary floating point        *)
(* (Python float, numpy float64).  The model keeps that arithmetic and     *)
(* narrows its width: a float is a significand of MantBits bits times a    *)
(* power of two, with gradual underflow, round-to-nearest-even, overflow   *)
(* to infinity and NaN.  A finite float is held as an integer count of the *)
(* smallest spacing 2^-FracBits, so 1.0 is the integer One.  Signed zeros  *)
(* are not distinguished (no result modelled here depends on the sign of   *)
(* a zero).                                                                *)
(***************************************************************************)
EXTENDS Integers, Sequences, FiniteSets

\* ------------------------------------------------------------------------
\* Floating point
\* ------------------------------------------------------------------------

\* Bits of significand (53 in float64).
MantBits == 4
\* 1.0 is 2^FracBits spacings of the subnormal range.
FracBits == 4
\* Binades above the subnormal range.
ExpMax == 10

One == 2^FracBits
MaxFinite == (2^MantBits - 1) * 2^ExpMax
PosInf == 2 * MaxFinite
NegInf == 0 - PosInf
NaN == PosInf + 1

IsNaN(x) == x = NaN
IsInf(x) == x = PosInf \/ x = NegInf
IsFinite(x) == x >= 0 - MaxFinite /\ x <= MaxFinite
Abs(n) == IF n < 0 THEN 0 - n ELSE n
Sign(n) == IF n < 0 THEN 0 - 1 ELSE 1

RECURSIVE BitLen(_)
BitLen(n) == IF n = 0 THEN 0 ELSE 1 + BitLen(n \div 2)

\* The float nearest to the rational num/den spacings (den > 0), ties to the
\* even significand; beyond the largest finite float, infinity.
RoundMag(a, den) ==
    LET q0 == a \div den
        k  == IF BitLen(q0) > MantBits THEN BitLen(q0) - MantBits ELSE 0
        D  == den * 2^k
        m  == a \div D
        r  == a % D
        up == (2 * r > D) \/ (2 * r = D /\ m % 2 = 1)
        v  == (IF up THEN m + 1 ELSE m) * 2^k
    IN  IF k > ExpMax \/ v > MaxFinite THEN PosInf ELSE v

Round(num, den) ==
    IF num < 0 THEN 0 - RoundMag(0 - num, den) ELSE RoundMag(num, den)

\* A decimal literal of the source, num/den, as the float the parser yields.
Lit(num, den) == Round(num * One, den)

FNeg(x) == IF IsNaN(x) THEN NaN ELSE 0 - x

\* x + y
FAdd(x, y) ==
    IF IsNaN(x) \/ IsNaN(y) THEN NaN
    ELSE IF IsInf(x) THEN (IF IsInf(y) /\ y # x THEN NaN ELSE x)
    ELSE IF IsInf(y) THEN y
    ELSE Round(x + y, 1)

\* x - y
FSub(x, y) == FAdd(x, FNeg(y))

\* x * y
FMul(x, y) ==
    IF IsNaN(x) \/ IsNaN(y) THEN NaN
    ELSE IF IsInf(x) \/ IsInf(y)
         THEN (IF x = 0 \/ y = 0 THEN NaN ELSE Sign(x) * Sign(y) * PosInf)
    \* a product this long overflows whatever its low bits are
    ELSE IF BitLen(Abs(x)) + BitLen(Abs(y)) > MantBits + ExpMax + FracBits + 2
         THEN Sign(x) * Sign(y) * PosInf
    ELSE Round(x * y, One)

\* x / y on numpy operands: a zero divisor gives an infinity or NaN (and a
\* RuntimeWarning), never an exception.
FDiv(x, y) ==
    IF IsNaN(x) \/ IsNaN(y) THEN NaN
    ELSE IF IsInf(x) THEN (IF IsInf(y) THEN NaN ELSE Sign(x) * Sign(y) * PosInf)
    ELSE IF IsInf(y) THEN 0
    ELSE IF y = 0 THEN (IF x = 0 THEN NaN ELSE Sign(x) * PosInf)
    ELSE Sign(x) * Sign(y) * RoundMag(Abs(x) * One, Abs(y))

\* Comparisons: every comparison with NaN is false.
FLe(x, y) == ~IsNaN(x) /\ ~IsNaN(y) /\ x <= y
FLt(x, y) == ~IsNaN(x) /\ ~IsNaN(y) /\ x < y

\* np.maximum: the larger operand, NaN when either is NaN.
FMaximum(x, y) ==
    IF IsNaN(x) \/ IsNaN(y) THEN NaN ELSE IF x >= y THEN x ELSE y

\* ------------------------------------------------------------------------
\* State
\* ------------------------------------------------------------------------

VARIABLES
    \* carnot_cop.py: one call carnot_cop_heating(T_hot_K, T_cold_K)
    arg_T_hot,      \* T_hot_K, a Python float
    arg_T_cold,     \* T_cold_K: [kind, arr]; kind "float" is a Python float
                    \* (arr holds the one value), kind "ndarray" a numpy array
    ret,            \* [raised, value]: the exception raised, or the array returned
    cpc,            \* "call" before the call, "returned" after it
    \* cop_data.py: a process that has imported the module
    trend_x,        \* the caller's trend temperatures, an array
    trend_y,        \* the caller's trend COPs, an array
    num_points,     \* the caller's num_points
    numpy_impl,     \* what the numpy build computes where the source leaves it
                    \* open: [polyfit, seeding]
    rng,            \* state of numpy's process-wide generator (np.random)
    caller_seed,    \* the seed the caller last gave np.random.seed; -1: none
    first_call,     \* what the first call of the generator returned
    last_call,      \* what the latest call returned, with its locals
    \* a run of one of the two scripts
    script,         \* "carnot_cop.py", "cop_data.py", or "none"
    pc,             \* the statement the run is at
    env,            \* the script's module-level names
    trace,          \* calls made so far: core computations and plt.savefig
    files,          \* image files written
    stdout          \* lines of the COP summary printed

carnotVars == <<arg_T_hot, arg_T_cold, ret, cpc>>
genVars == <<trend_x, trend_y, num_points, numpy_impl, rng, caller_seed,
             first_call, last_call>>
runVars == <<script, pc, env, trace, files, stdout>>
vars == <<arg_T_hot, arg_T_cold, ret, cpc, trend_x, trend_y, num_points,
          numpy_impl, rng, caller_seed, first_call, last_call,
          script, pc, env, trace, files, stdout>>

\* ------------------------------------------------------------------------
\* carnot_cop.py
\* ------------------------------------------------------------------------

\* Longest T_cold_K array drawn.
MaxLen == 2
\* Largest power of two among the magnitudes drawn as temperatures.
MaxInExp == 4

\* return temp_celsius + 273.15
celsius_to_kelvin(temp_celsius) == FAdd(temp_celsius, Lit(27315, 100))

\* delta_T = T_hot_K - T_cold_K, one element
delta_T(T_hot_K, T_cold_K) == FSub(T_hot_K, T_cold_K)

\* cop = T_hot_K / delta_T, one element of a numpy operand
cop_mutant_inverted(T_hot_K, delta) == FDiv(delta, T_hot_K)
cop(T_hot_K, delta) == FDiv(T_hot_K, delta)

\* The condition of np.where: delta_T <= 0
invalid_mutant_strict(delta) == FLt(delta, 0)
invalid(delta) == FLe(delta, 0)

\* np.where(delta_T <= 0, np.nan, cop), one element
where_mutant_negated(delta, c) == IF invalid(delta) THEN c ELSE NaN
where(delta, c) == IF invalid(delta) THEN NaN ELSE c

\* Python's float / float raises ZeroDivisionError on a zero divisor; with a
\* numpy operand on either side the division is numpy's and does not raise.
raises(T_cold_K, deltas) ==
    T_cold_K.kind = "float" /\ \E i \in DOMAIN deltas : deltas[i] = 0

carnot_cop_heating(T_hot_K, T_cold_K) ==
    LET deltas == [i \in DOMAIN T_cold_K.arr |-> delta_T(T_hot_K, T_cold_K.arr[i])]
    IN  IF raises(T_cold_K, deltas)
        THEN [raised |-> TRUE, value |-> <<>>]
        ELSE [raised |-> FALSE,
              value |-> [i \in DOMAIN deltas |->
                            where(deltas[i], cop(T_hot_K, deltas[i]))]]

\* The temperatures drawn: zero, the powers of two and three times them up
\* to 2^MaxInExp spacings, the largest finite float, and their negatives.
InputMags ==
    {0, MaxFinite} \cup {2^k : k \in 0..MaxInExp} \cup {3 * 2^k : k \in 0..MaxInExp}
InputTemps == InputMags \cup {0 - m : m \in InputMags}

RECURSIVE SeqsUpTo(_, _)
SeqsUpTo(S, n) ==
    IF n = 0 THEN {<<>>}
    ELSE LET shorter == SeqsUpTo(S, n - 1)
         IN  shorter \cup {Append(s, x) : s \in {t \in shorter : Len(t) = n - 1}, x \in S}

\* ------------------------------------------------------------------------
\* cop_data.py
\* ------------------------------------------------------------------------

\* A call of the generator as the caller sees it: the seed the caller had
\* set before it (-1: none) and what the call did.
NoCall == [called |-> FALSE, seed |-> 0 - 1, out |-> <<>>]

\* Most points one call is asked for (1200 by default in the source).
MaxPoints == 2

\* TREND_LINE_DATA
TREND_LINE_DATA ==
    [temperature_c |-> <<Lit(0 - 20, 1), Lit(0 - 15, 1), Lit(0 - 10, 1), Lit(0 - 5, 1),
                         Lit(0, 1), Lit(5, 1), Lit(10, 1)>>,
     cop_avg |-> <<Lit(18, 10), Lit(20, 10), Lit(22, 10), Lit(25, 10), Lit(28, 10),
                   Lit(33, 10), Lit(37, 10)>>]

RECURSIVE ArrayMin(_)
ArrayMin(a) ==
    IF Len(a) = 1 THEN a[1]
    ELSE LET m == ArrayMin(Tail(a)) IN IF a[1] <= m THEN a[1] ELSE m
RECURSIVE ArrayMax(_)
ArrayMax(a) ==
    IF Len(a) = 1 THEN a[1]
    ELSE LET m == ArrayMax(Tail(a)) IN IF a[1] >= m THEN a[1] ELSE m

\* np.polyfit(trend_x, trend_y, 3): the four coefficients, highest power
\* first, that this numpy build computes for the data.
polyfit(tx, ty) == numpy_impl.polyfit

\* np.poly1d(trend_poly)(x): Horner's rule, y = y * x + c over the coefficients.
RECURSIVE polyval(_, _, _)
polyval(coefs, x, y) ==
    IF coefs = <<>> THEN y
    ELSE polyval(Tail(coefs), x, FAdd(FMul(y, x), Head(coefs)))
p(trend_poly, x) == polyval(trend_poly, x, 0)

\* Bits of generator state (19937 in numpy's Mersenne Twister).
RngBits == 2

\* The generator has 2^RngBits states; a draw steps it and reads the new state.
RngStates == 2^RngBits
RngStep(state) == (5 * state + 3) % RngStates
RECURSIVE RngAfter(_, _)
RngAfter(state, n) == IF n = 0 THEN state ELSE RngAfter(RngStep(state), n - 1)

\* np.random.seed(seed): the state this numpy build derives from the seed.
np_random_seed_mutant_ignored(state, s) == state
np_random_seed(state, s) == (s + numpy_impl.seeding) % RngStates

\* random_sample: a fraction k / 2^RngBits in [0, 1)
random_sample(state) == Round(state * One, RngStates)
\* standard normal deviate read from a state: -2, -1, 0, 1 or 2
gauss(state) == Lit((state % 5) - 2, 1)

\* np.random.uniform(low, high): low + (high - low) * random_sample()
uniform(low, high, state) == FAdd(low, FMul(FSub(high, low), random_sample(state)))

\* np.random.normal(loc, scale): loc + scale * gauss()
normal(loc, scale, state) == FAdd(loc, FMul(scale, gauss(state)))

\* variance_factor = 0.2 + 0.1 * ((synthetic_temp + 20) / 30), one element
variance_factor_mutant_falling(t) ==
    FSub(Lit(2, 10), FMul(Lit(1, 10), FDiv(FAdd(t, Lit(20, 1)), Lit(30, 1))))
variance_factor(t) ==
    FAdd(Lit(2, 10), FMul(Lit(1, 10), FDiv(FAdd(t, Lit(20, 1)), Lit(30, 1))))

\* np.maximum(synthetic_cop, 0.5), one element
clip_mutant_ceiling(c) == IF IsNaN(c) THEN NaN ELSE IF c <= Lit(5, 10) THEN c ELSE Lit(5, 10)
clip(c) == FMaximum(c, Lit(5, 10))

\* The third array returned: p(synthetic_temp)
returned_trend_mutant_noised(trend_poly, t, c) == c
returned_trend(trend_poly, t, c) == p(trend_poly, t)

\* generate_synthetic_scatter_data(trend_x, trend_y, num_points) run from the
\* generator state `state`: what it returns or raises, its locals, and the
\* generator state it leaves.
generate_synthetic_scatter_data(tx, ty, n, state) ==
    LET trend_poly == polyfit(tx, ty)
        seeded == np_random_seed(state, 42)
        low == ArrayMin(tx)
        high == ArrayMax(tx)
        synthetic_temp == [i \in 1..n |-> uniform(low, high, RngAfter(seeded, i))]
        expected_cop == [i \in 1..n |-> p(trend_poly, synthetic_temp[i])]
        vf == [i \in 1..n |-> variance_factor(synthetic_temp[i])]
        \* np.random.normal raises ValueError when a scale is negative
        bad == \E i \in 1..n : FLt(vf[i], 0)
        noise == [i \in 1..n |-> normal(0, vf[i], RngAfter(seeded, n + i))]
        synthetic_cop == [i \in 1..n |-> clip(FAdd(expected_cop[i], noise[i]))]
    IN  IF bad
        THEN [raised |-> TRUE, synthetic_temp |-> <<>>, synthetic_cop |-> <<>>,
              expected |-> <<>>, variance_factor |-> vf, noise |-> <<>>,
              rng |-> RngAfter(seeded, n)]
        ELSE [raised |-> FALSE,
              synthetic_temp |-> synthetic_temp,
              synthetic_cop |-> synthetic_cop,
              expected |-> [i \in 1..n |->
                               returned_trend(trend_poly, synthetic_temp[i],
                                              synthetic_cop[i])],
              variance_factor |-> vf,
              noise |-> noise,
              rng |-> RngAfter(seeded, 2 * n)]

\* ------------------------------------------------------------------------
\* The two scripts, statement by statement
\* ------------------------------------------------------------------------

\* Points of the ambient sweep: np.linspace(-35, 15, 100)
AmbientPoints == 100

NoEnv ==
    [T_ambient_C |-> <<>>, T_ambient_K |-> <<>>, T_target_1_K |-> 0,
     T_target_2_K |-> 0, cop_35C |-> <<>>, cop_65C |-> <<>>, figure |-> <<>>]

\* np.linspace(start, stop, num): start + i * step, the last point set to stop
linspace(start, stop, num) ==
    LET step == FDiv(FSub(stop, start), Lit(num - 1, 1))
    IN  [i \in 1..num |->
            IF i = num THEN stop ELSE FAdd(FMul(Lit(i - 1, 1), step), start)]

\* np.argmin(np.abs(a)): the first index of the smallest magnitude
argmin_abs(a) ==
    CHOOSE i \in DOMAIN a :
        /\ \A j \in DOMAIN a : Abs(a[i]) <= Abs(a[j])
        /\ \A j \in DOMAIN a : j < i => Abs(a[j]) > Abs(a[i])

T_target_1_C == Lit(35, 1)
T_target_2_C == Lit(65, 1)

\* The calls at the end of carnot_cop.py: print_cop_at_temp(T_cold_C, T_hot_C,
\* T_hot_K) for -35, 0 and 15 against both targets.
SummaryCalls ==
    << <<Lit(0 - 35, 1), 1>>, <<Lit(0 - 35, 1), 2>>, <<Lit(0, 1), 1>>,
       <<Lit(0, 1), 2>>, <<Lit(15, 1), 1>>, <<Lit(15, 1), 2>> >>

\* print_cop_at_temp: the line printed, or the exception that ends the script
print_cop_at_temp(T_cold_C, T_hot_C, T_hot_K) ==
    LET T_cold_K == celsius_to_kelvin(T_cold_C)
        r == carnot_cop_heating(T_hot_K, [kind |-> "float", arr |-> <<T_cold_K>>])
    IN  IF r.raised THEN [raised |-> TRUE, T_cold_C |-> T_cold_C, T_hot_C |-> T_hot_C,
                          text |-> "ZeroDivisionError", cop |-> 0]
        ELSE IF IsNaN(r.value[1])
             THEN [raised |-> FALSE, T_cold_C |-> T_cold_C, T_hot_C |-> T_hot_C,
                   text |-> "Invalid (T_hot <= T_cold)", cop |-> 0]
             ELSE [raised |-> FALSE, T_cold_C |-> T_cold_C, T_hot_C |-> T_hot_C,
                   text |-> "COP", cop |-> r.value[1]]

\* plt.savefig(name): one more image file written
plt_savefig_mutant_skipped(written, name) == written
plt_savefig(written, name) == Append(written, name)

\* ------------------------------------------------------------------------
\* Specifications
\* ------------------------------------------------------------------------

\* The cop_data.py part of the state while only carnot_cop.py is looked at.
GenIdle ==
    /\ trend_x = <<>> /\ trend_y = <<>> /\ num_points = 0
    /\ numpy_impl = [polyfit |-> <<>>, seeding |-> 0]
    /\ rng = 0 /\ caller_seed = 0 - 1
    /\ first_call = NoCall /\ last_call = NoCall

\* No script is running.
RunIdle ==
    /\ script = "none" /\ pc = "none" /\ env = NoEnv
    /\ trace = <<>> /\ files = <<>> /\ stdout = <<>>

\* The carnot_cop.py part of the state while only cop_data.py is looked at.
CarnotIdle ==
    /\ arg_T_hot = 0
    /\ arg_T_cold = [kind |-> "float", arr |-> <<0>>]
    /\ ret = [raised |-> FALSE, value |-> <<>>]
    /\ cpc = "idle"

\* One call of carnot_cop_heating on drawn arguments.
InitCarnot ==
    /\ GenIdle
    /\ RunIdle
    /\ arg_T_hot \in InputTemps
    /\ arg_T_cold \in
          {[kind |-> "float", arr |-> <<x>>] : x \in InputTemps}
          \cup {[kind |-> "ndarray", arr |-> a] : a \in SeqsUpTo(InputTemps, MaxLen)}
    /\ ret = [raised |-> FALSE, value |-> <<>>]
    /\ cpc = "call"

CallCarnot ==
    /\ cpc = "call"
    /\ ret' = carnot_cop_heating(arg_T_hot, arg_T_cold)
    /\ cpc' = "returned"
    /\ UNCHANGED <<arg_T_hot, arg_T_cold>>
    /\ UNCHANGED genVars
    /\ UNCHANGED runVars

NextCarnot == CallCarnot

SpecCarnot == InitCarnot /\ [][NextCarnot]_vars

\* Trend data a caller passes: the module's TREND_LINE_DATA, an unsorted
\* narrow range, and a range that reaches far below -20.
TrendChoices ==
    { <<TREND_LINE_DATA.temperature_c, TREND_LINE_DATA.cop_avg>>,
      <<<<Lit(4, 1), Lit(0 - 4, 1), Lit(0, 1), Lit(2, 1)>>,
        <<Lit(3, 1), Lit(1, 1), Lit(2, 1), Lit(2, 1)>>>>,
      <<<<Lit(0 - 100, 1), Lit(0 - 50, 1), Lit(0, 1), Lit(10, 1)>>,
        <<Lit(1, 1), Lit(1, 1), Lit(2, 1), Lit(3, 1)>>>> }

\* Coefficients a fit may yield, highest power first: a rising line through
\* 2.8 at 0 (the reference data's trend at this precision), a parabola that
\* touches the floor 0.5 at 0, and a falling cubic.
CoefChoices ==
    { <<0, 0, Lit(1, 16), Lit(28, 10)>>,
      <<0, Lit(1, 16), 0, Lit(5, 10)>>,
      <<Lit(0 - 1, 16), 0, 0, Lit(1, 1)>> }

\* Seeds a caller gives np.random.seed.
CallerSeeds == {7, 42}

\* A process that imported cop_data: its generator is seeded from the
\* operating system, and the caller holds trend data and a point count.
InitGen ==
    /\ CarnotIdle
    /\ RunIdle
    /\ \E d \in TrendChoices : trend_x = d[1] /\ trend_y = d[2]
    /\ num_points \in 0..MaxPoints
    /\ numpy_impl \in [polyfit : CoefChoices, seeding : 0..(RngStates - 1)]
    /\ rng \in 0..(RngStates - 1)
    /\ caller_seed = 0 - 1
    /\ first_call = NoCall
    /\ last_call = NoCall

\* The caller calls np.random.seed(s).
CallerSeed(s) ==
    /\ rng' = np_random_seed(rng, s)
    /\ caller_seed' = s
    /\ UNCHANGED <<trend_x, trend_y, num_points, numpy_impl, first_call, last_call>>
    /\ UNCHANGED carnotVars
    /\ UNCHANGED runVars

\* The caller draws one number from np.random.
CallerDraw ==
    /\ rng' = RngStep(rng)
    /\ UNCHANGED <<trend_x, trend_y, num_points, numpy_impl, caller_seed,
                   first_call, last_call>>
    /\ UNCHANGED carnotVars
    /\ UNCHANGED runVars

\* The caller calls generate_synthetic_scatter_data(trend_x, trend_y, num_points).
Generate ==
    LET out == generate_synthetic_scatter_data(trend_x, trend_y, num_points, rng)
        call == [called |-> TRUE, seed |-> caller_seed, out |-> out]
    IN  /\ rng' = out.rng
        /\ last_call' = call
        /\ first_call' = IF first_call.called THEN first_call ELSE call
        /\ UNCHANGED <<trend_x, trend_y, num_points, numpy_impl, caller_seed>>
        /\ UNCHANGED carnotVars
        /\ UNCHANGED runVars

NextGen ==
    \/ \E s \in CallerSeeds : CallerSeed(s)
    \/ CallerDraw
    \/ Generate

SpecGen == InitGen /\ [][NextGen]_vars

\* A run of carnot_cop.py, or of cop_data.py as the main program (its
\* generator seeded from the operating system, the numpy build left open).
InitRun ==
    /\ CarnotIdle
    /\ env = NoEnv /\ trace = <<>> /\ files = <<>> /\ stdout = <<>>
    /\ caller_seed = 0 - 1 /\ first_call = NoCall /\ last_call = NoCall
    /\ \/ /\ script = "carnot_cop.py" /\ pc = "ambient"
          /\ trend_x = <<>> /\ trend_y = <<>> /\ num_points = 0
          /\ numpy_impl = [polyfit |-> <<>>, seeding |-> 0]
          /\ rng = 0
       \/ /\ script = "cop_data.py" /\ pc = "generate"
          /\ trend_x = TREND_LINE_DATA.temperature_c
          /\ trend_y = TREND_LINE_DATA.cop_avg
          \* the default num_points, 1200 in the source
          /\ num_points = MaxPoints
          /\ numpy_impl \in [polyfit : CoefChoices, seeding : 0..(RngStates - 1)]
          /\ rng \in 0..(RngStates - 1)

RunFrame == UNCHANGED carnotVars /\ UNCHANGED <<script, trend_x, trend_y, num_points, numpy_impl, caller_seed>>
GenUntouched == UNCHANGED <<rng, first_call, last_call>>

\* carnot_cop.py lines 37-38
Ambient ==
    /\ script = "carnot_cop.py" /\ pc = "ambient"
    /\ LET C == linspace(Lit(0 - 35, 1), Lit(15, 1), AmbientPoints)
       IN  env' = [env EXCEPT !.T_ambient_C = C,
                              !.T_ambient_K = [i \in DOMAIN C |-> celsius_to_kelvin(C[i])]]
    /\ trace' = Append(trace, "celsius_to_kelvin")
    /\ pc' = "targets"
    /\ UNCHANGED <<files, stdout>> /\ RunFrame /\ GenUntouched

\* lines 41-45
Targets ==
    /\ script = "carnot_cop.py" /\ pc = "targets"
    /\ env' = [env EXCEPT !.T_target_1_K = celsius_to_kelvin(T_target_1_C),
                          !.T_target_2_K = celsius_to_kelvin(T_target_2_C)]
    /\ trace' = trace \o <<"celsius_to_kelvin", "celsius_to_kelvin">>
    /\ pc' = "cop_35C"
    /\ UNCHANGED <<files, stdout>> /\ RunFrame /\ GenUntouched

\* line 50
Cop35 ==
    /\ script = "carnot_cop.py" /\ pc = "cop_35C"
    /\ env' = [env EXCEPT !.cop_35C =
                  carnot_cop_heating(env.T_target_1_K,
                                     [kind |-> "ndarray", arr |-> env.T_ambient_K]).value]
    /\ trace' = Append(trace, "carnot_cop_heating")
    /\ pc' = "cop_65C"
    /\ UNCHANGED <<files, stdout>> /\ RunFrame /\ GenUntouched

\* line 53
Cop65 ==
    /\ script = "carnot_cop.py" /\ pc = "cop_65C"
    /\ env' = [env EXCEPT !.cop_65C =
                  carnot_cop_heating(env.T_target_2_K,
                                     [kind |-> "ndarray", arr |-> env.T_ambient_K]).value]
    /\ trace' = Append(trace, "carnot_cop_heating")
    /\ pc' = "plot"
    /\ UNCHANGED <<files, stdout>> /\ RunFrame /\ GenUntouched

\* lines 57-76: the two curves, labels, grid, legend, the -20 line
PlotCurves ==
    /\ script = "carnot_cop.py" /\ pc = "plot"
    /\ env' = [env EXCEPT !.figure = @ \o <<"cop_35C", "cop_65C", "axvline">>]
    /\ pc' = "annotate"
    /\ UNCHANGED <<trace, files, stdout>> /\ RunFrame /\ GenUntouched

\* lines 80-99: a marker at 0 C on each curve whose COP there is not NaN,
\* then the axis limits and the text box
Annotate ==
    /\ script = "carnot_cop.py" /\ pc = "annotate"
    /\ LET zero_c_index == argmin_abs(env.T_ambient_C)
           cop35_at_0 == env.cop_35C[zero_c_index]
           cop65_at_0 == env.cop_65C[zero_c_index]
       IN  env' = [env EXCEPT !.figure =
                      @ \o (IF IsNaN(cop35_at_0) THEN <<>> ELSE <<"cop35_at_0">>)
                        \o (IF IsNaN(cop65_at_0) THEN <<>> ELSE <<"cop65_at_0">>)
                        \o <<"text">>]
    /\ pc' = "savefig"
    /\ UNCHANGED <<trace, files, stdout>> /\ RunFrame /\ GenUntouched

\* line 102
SaveCarnot ==
    /\ script = "carnot_cop.py" /\ pc = "savefig"
    /\ files' = plt_savefig(files, "carnot_cop_plot.png")
    /\ trace' = Append(trace, "plt.savefig")
    /\ pc' = "summary"
    /\ UNCHANGED <<env, stdout>> /\ RunFrame /\ GenUntouched

\* lines 105-133: the header, then one print_cop_at_temp call per step
Summary ==
    /\ script = "carnot_cop.py" /\ pc = "summary"
    /\ LET k == Len(stdout) + 1
           T_hot_C == IF SummaryCalls[k][2] = 1 THEN T_target_1_C ELSE T_target_2_C
           T_hot_K == IF SummaryCalls[k][2] = 1 THEN env.T_target_1_K
                      ELSE env.T_target_2_K
           line == print_cop_at_temp(SummaryCalls[k][1], T_hot_C, T_hot_K)
       IN  /\ stdout' = Append(stdout, line)
           /\ pc' = IF line.raised THEN "crashed"
                    ELSE IF k = Len(SummaryCalls) THEN "done" ELSE "summary"
    /\ trace' = trace \o <<"celsius_to_kelvin", "carnot_cop_heating">>
    /\ UNCHANGED <<env, files>> /\ RunFrame /\ GenUntouched

\* cop_data.py lines 52-55: reproduce_plot calls the generator
RunGenerate ==
    /\ script = "cop_data.py" /\ pc = "generate"
    /\ LET out == generate_synthetic_scatter_data(trend_x, trend_y, num_points, rng)
           call == [called |-> TRUE, seed |-> caller_seed, out |-> out]
       IN  /\ rng' = out.rng
           /\ last_call' = call
           /\ first_call' = call
           /\ pc' = IF out.raised THEN "crashed" ELSE "scatter"
    /\ trace' = trace \o <<"generate_synthetic_scatter_data", "np.polyfit">>
    /\ UNCHANGED <<env, files, stdout>> /\ RunFrame

\* lines 58-68
Scatter ==
    /\ script = "cop_data.py" /\ pc = "scatter"
    /\ env' = [env EXCEPT !.figure = Append(@, "scatter")]
    /\ pc' = "trend"
    /\ UNCHANGED <<trace, files, stdout>> /\ RunFrame /\ GenUntouched

\* lines 72-81: the trend line, from a second fit of the same data
TrendLine ==
    /\ script = "cop_data.py" /\ pc = "trend"
    /\ env' = [env EXCEPT !.figure = Append(@, "trend")]
    /\ trace' = Append(trace, "np.polyfit")
    /\ pc' = "style"
    /\ UNCHANGED <<files, stdout>> /\ RunFrame /\ GenUntouched

\* lines 86-110
Style ==
    /\ script = "cop_data.py" /\ pc = "style"
    /\ env' = [env EXCEPT !.figure = Append(@, "title")]
    /\ pc' = "savefig"
    /\ UNCHANGED <<trace, files, stdout>> /\ RunFrame /\ GenUntouched

\* lines 113-116: save, close the figure, report
SavePlot ==
    /\ script = "cop_data.py" /\ pc = "savefig"
    /\ files' = plt_savefig(files, "reproduced_cop_plot.png")
    /\ trace' = Append(trace, "plt.savefig")
    /\ env' = [env EXCEPT !.figure = <<>>]
    /\ stdout' = Append(stdout, [raised |-> FALSE, T_cold_C |-> 0, T_hot_C |-> 0,
                                 text |-> "Successfully generated", cop |-> 0])
    /\ pc' = "done"
    /\ RunFrame /\ GenUntouched

NextRun ==
    \/ Ambient \/ Targets \/ Cop35 \/ Cop65 \/ PlotCurves \/ Annotate
    \/ SaveCarnot \/ Summary
    \/ RunGenerate \/ Scatter \/ TrendLine \/ Style \/ SavePlot

SpecRun == InitRun /\ [][NextRun]_vars

\* ------------------------------------------------------------------------
\* Claims about carnot_cop_heating (checked under SpecCarnot)
\* ------------------------------------------------------------------------

Returned == cpc = "returned"
Cold(i) == arg_T_cold.arr[i]
Idx == DOMAIN arg_T_cold.arr

\* C1: for a scalar T_hot_K and an array T_cold_K the call returns an array
\* of the same length whose element i is NaN exactly when
\* T_hot_K - T_cold_K[i] <= 0 (zero included) and is otherwise
\* T_hot_K / (T_hot_K - T_cold_K[i]) in floating point.
C1_ArrayInvalidExactlyWhenNotWarmer ==
    (Returned /\ arg_T_cold.kind = "ndarray") =>
        /\ ~ret.raised
        /\ Len(ret.value) = Len(arg_T_cold.arr)
        /\ \A i \in Idx :
              /\ IsNaN(ret.value[i]) <=> (arg_T_hot - Cold(i) <= 0)
              /\ (arg_T_hot - Cold(i) > 0) =>
                     ret.value[i] = FDiv(arg_T_hot, FSub(arg_T_hot, Cold(i)))

\* C1 witness: a returned two-element array, one element at the boundary
\* (delta = 0, invalid) and one valid.
C1_Witness ==
    /\ Returned /\ arg_T_cold.kind = "ndarray" /\ Len(arg_T_cold.arr) = 2
    /\ arg_T_hot > 0
    /\ Cold(1) = arg_T_hot /\ IsNaN(ret.value[1])
    /\ Cold(2) < arg_T_hot /\ ~IsNaN(ret.value[2])

\* C2: the call never raises: whenever T_hot_K - T_cold_K <= 0, a plain
\* scalar T_cold_K equal to T_hot_K included, it returns NaN as a value.
C2_NeverRaises ==
    (Returned /\ \A i \in Idx : arg_T_hot - Cold(i) <= 0) =>
        /\ ~ret.raised
        /\ Len(ret.value) = Len(arg_T_cold.arr)
        /\ \A i \in Idx : IsNaN(ret.value[i])

\* C3 as stated: for T_hot_K > 0 and T_cold_K < T_hot_K the result is > 1.
C3_GreaterThanOne ==
    (Returned /\ arg_T_hot > 0) =>
        \A i \in Idx : Cold(i) < arg_T_hot =>
            (~ret.raised /\ FLt(One, ret.value[i]))

\* C3 amended: for T_hot_K > 0 and 0 < T_cold_K < T_hot_K the result is a
\* number >= 1, and it is exactly 1 only when the subtraction
\* T_hot_K - T_cold_K rounds back to T_hot_K; for T_cold_K <= 0 it is <= 1.
C3_AtLeastOneForPositiveCold ==
    (Returned /\ arg_T_hot > 0) =>
        \A i \in Idx : Cold(i) < arg_T_hot =>
            /\ ~ret.raised
            /\ ~IsNaN(ret.value[i])
            /\ Cold(i) > 0 => ret.value[i] >= One
            /\ Cold(i) > 0 =>
                  (ret.value[i] = One <=> FSub(arg_T_hot, Cold(i)) = arg_T_hot)
            /\ Cold(i) <= 0 => ret.value[i] <= One

\* C3 witness: a positive T_cold_K below T_hot_K with a result above 1, next
\* to one so small that it is absorbed and the result is exactly 1.
C3_Witness ==
    /\ Returned /\ arg_T_hot > 0 /\ Len(arg_T_cold.arr) = 2
    /\ Cold(1) > 0 /\ Cold(1) < arg_T_hot /\ ret.value[1] > One
    /\ Cold(2) > 0 /\ Cold(2) < arg_T_hot /\ ret.value[2] = One

\* Both the subtraction and the division of element i are exact.
ExactAt(i) ==
    /\ FSub(arg_T_hot, Cold(i)) = arg_T_hot - Cold(i)
    /\ ret.value[i] * (arg_T_hot - Cold(i)) = arg_T_hot * One

\* C4 as stated: for T_hot_K > 0 and a < b < T_hot_K the result at b is
\* strictly smaller than the result at a.
C4_StrictlyDecreasing ==
    (Returned /\ arg_T_hot > 0 /\ ~ret.raised) =>
        \A i, j \in Idx :
            (Cold(i) < Cold(j) /\ Cold(j) < arg_T_hot) =>
                FLt(ret.value[j], ret.value[i])

\* C4 amended: for T_hot_K > 0 and a < b < T_hot_K the result at b is never
\* smaller than the result at a (the COP rises as T_cold_K approaches
\* T_hot_K), and it is strictly larger when both results are computed
\* without rounding.
C4_NonDecreasing ==
    (Returned /\ arg_T_hot > 0 /\ ~ret.raised) =>
        \A i, j \in Idx :
            (Cold(i) < Cold(j) /\ Cold(j) < arg_T_hot) =>
                /\ FLe(ret.value[i], ret.value[j])
                /\ (ExactAt(i) /\ ExactAt(j)) => FLt(ret.value[i], ret.value[j])

\* C4 witness: two cold temperatures a < b < T_hot_K with a strictly larger
\* result at b, both computed exactly.
C4_Witness ==
    /\ Returned /\ arg_T_hot > 0 /\ ~ret.raised /\ Len(arg_T_cold.arr) = 2
    /\ Cold(1) < Cold(2) /\ Cold(2) < arg_T_hot
    /\ ExactAt(1) /\ ExactAt(2)
    /\ ret.value[1] < ret.value[2]

\* ------------------------------------------------------------------------
\* Claims about generate_synthetic_scatter_data (checked under SpecGen)
\* ------------------------------------------------------------------------

\* The latest call returned (it did not raise).
Got == last_call.called /\ ~last_call.out.raised
Out == last_call.out
Pts == DOMAIN last_call.out.synthetic_cop
Floor == Lit(5, 10)
Unclipped(i) == FAdd(Out.expected[i], Out.noise[i])
FromReferenceTrend == trend_x = TREND_LINE_DATA.temperature_c

\* C5: every synthetic COP returned is >= 0.5, and a value at or above 0.5
\* before clipping is returned unchanged.
C5_FloorNoCeiling ==
    Got => \A i \in Pts :
        /\ FLe(Floor, Out.synthetic_cop[i])
        /\ FLe(Floor, Unclipped(i)) => Out.synthetic_cop[i] = Unclipped(i)

\* C5 witness: a returned pair of points, one raised to the floor and one
\* above the floor returned as computed.
C5_Witness ==
    /\ Got /\ num_points = 2
    /\ Unclipped(1) < Floor /\ Out.synthetic_cop[1] = Floor
    /\ Unclipped(2) > Floor /\ Out.synthetic_cop[2] = Unclipped(2)
    /\ IsFinite(Unclipped(2))

\* What a caller gets from a call: the exception, or the three arrays.
Result(c) ==
    <<c.out.raised, c.out.synthetic_temp, c.out.synthetic_cop, c.out.expected>>

\* C6 amended: two calls with identical arguments give identical results,
\* whatever the caller drew from or seeded into the process-wide generator
\* before or between them.
C6_SameArgumentsSameOutput ==
    (first_call.called /\ last_call.called) => Result(first_call) = Result(last_call)

\* C6 as stated: identical arguments and the same seed give identical
\* results, and different seeds give different results.
C6_SeedDecidesOutput ==
    (first_call.called /\ last_call.called) =>
        /\ first_call.seed = last_call.seed => Result(first_call) = Result(last_call)
        /\ (/\ first_call.seed \in CallerSeeds /\ last_call.seed \in CallerSeeds
            /\ first_call.seed # last_call.seed
            /\ num_points >= 1 /\ ~last_call.out.raised)
               => Result(first_call) # Result(last_call)

\* C6 witness: two calls that returned points, the caller having reseeded
\* the generator between them.
C6_Witness ==
    /\ first_call.called /\ last_call.called
    /\ first_call.seed \in CallerSeeds /\ last_call.seed \in CallerSeeds
    /\ first_call.seed # last_call.seed
    /\ num_points = 2 /\ ~last_call.out.raised
    /\ \A i \in Pts : IsFinite(Out.synthetic_cop[i]) /\ Out.noise[i] # 0

\* C7: the call returns three index-aligned arrays of length num_points:
\* temperatures within [min(trend_x), max(trend_x)], COPs
\* max(P(temperature) + noise, 0.5) and the un-noised P(temperature), P being
\* the polynomial fitted from (trend_x, trend_y).
C7_ThreeAlignedArrays ==
    Got =>
        /\ Len(Out.synthetic_temp) = num_points
        /\ Len(Out.synthetic_cop) = num_points
        /\ Len(Out.expected) = num_points
        /\ \A i \in 1..num_points :
              /\ ArrayMin(trend_x) <= Out.synthetic_temp[i]
              /\ Out.synthetic_temp[i] <= ArrayMax(trend_x)
              /\ Out.expected[i] = p(polyfit(trend_x, trend_y), Out.synthetic_temp[i])
              /\ Out.synthetic_cop[i] =
                     FMaximum(FAdd(Out.expected[i], Out.noise[i]), Floor)

\* C7 witness: a returned call of two points whose noise is not zero and
\* whose temperatures differ.
C7_Witness ==
    /\ Got /\ num_points = 2
    /\ Out.synthetic_temp[1] # Out.synthetic_temp[2]
    /\ Out.noise[1] # 0 /\ Out.synthetic_cop[1] # Out.expected[1]
    /\ Out.synthetic_cop[1] > Floor
    /\ \A i \in Pts : IsFinite(Out.synthetic_cop[i])

\* C9: a call of the generator leaves the state that outlives it as it was:
\* the process-wide generator and the trend arrays passed in.
C9_GeneratorIsPure ==
    [][Generate => (rng' = rng /\ trend_x' = trend_x /\ trend_y' = trend_y)]_vars

\* C10: sigma(t) = 0.2 + 0.1 * ((t + 20) / 30) does not decrease as t grows,
\* is 0.2 at t = -20, and over the reference range [-20, 10] is at least 0.2
\* and so positive.
C10_SigmaMonotone ==
    last_call.called =>
        /\ Got => \A i, j \in Pts :
               Out.synthetic_temp[i] <= Out.synthetic_temp[j] =>
                   FLe(Out.variance_factor[i], Out.variance_factor[j])
        /\ FromReferenceTrend =>
               /\ ~Out.raised
               /\ \A i \in Pts :
                     /\ FLe(Lit(2, 10), Out.variance_factor[i])
                     /\ FLt(0, Out.variance_factor[i])
                     /\ Out.synthetic_temp[i] = Lit(0 - 20, 1) =>
                            Out.variance_factor[i] = Lit(2, 10)

\* C10 witness: over the reference range, a point drawn at -20 with sigma
\* 0.2 and a warmer point with a larger sigma.
C10_Witness ==
    /\ Got /\ FromReferenceTrend /\ num_points = 2
    /\ \E i, j \in Pts :
          /\ Out.synthetic_temp[i] = Lit(0 - 20, 1)
          /\ Out.variance_factor[i] = Lit(2, 10)
          /\ Out.synthetic_temp[j] > Out.synthetic_temp[i]
          /\ Out.variance_factor[j] > Out.variance_factor[i]


\* ------------------------------------------------------------------------
\* Claims about the script runs (SpecRun)
\* ------------------------------------------------------------------------

CoreEvents ==
    {"celsius_to_kelvin", "carnot_cop_heating", "np.polyfit",
     "generate_synthetic_scatter_data"}

SavePositions == {i \in DOMAIN trace : trace[i] = "plt.savefig"}
AfterSave == {j \in DOMAIN trace : \E i \in SavePositions : j > i}

\* C8 as stated: in each script's run the image is saved exactly once, and
\* no call to carnot_cop_heating, celsius_to_kelvin, the polynomial fit or
\* the generator happens after the save.
C8_NothingCoreAfterSave ==
    /\ Cardinality(SavePositions) <= 1
    /\ pc = "done" => Cardinality(SavePositions) = 1 /\ Len(files) = 1
    /\ \A j \in AfterSave : trace[j] \notin CoreEvents

\* C8 amended: each run saves exactly one image, after everything that is
\* drawn has been computed.  cop_data.py calls nothing core after the save;
\* carnot_cop.py goes on to call celsius_to_kelvin and carnot_cop_heating
\* once per printed summary line, six times each by the end of the run.
C8_SavedOnceAfterPlottedData ==
    /\ Cardinality(SavePositions) <= 1 /\ Len(files) <= 1
    /\ pc = "done" => Cardinality(SavePositions) = 1 /\ Len(files) = 1
    /\ (script = "cop_data.py") =>
          /\ \A j \in AfterSave : trace[j] \notin CoreEvents
          /\ files # <<>> => first_call.called /\ ~first_call.out.raised
    /\ (script = "carnot_cop.py") =>
          /\ files # <<>> =>
                /\ Len(env.cop_35C) = AmbientPoints
                /\ Len(env.cop_65C) = AmbientPoints
                /\ Len(env.figure) >= 3
          /\ Cardinality(AfterSave) = 2 * Len(stdout)
          /\ \A j \in AfterSave :
                trace[j] = IF (Len(trace) - j) % 2 = 1 THEN "celsius_to_kelvin"
                           ELSE "carnot_cop_heating"
          /\ pc = "done" => Len(stdout) = Len(SummaryCalls)

C8_Witness ==
    /\ script = "carnot_cop.py" /\ pc = "done"
    /\ files = <<"carnot_cop_plot.png">>
    /\ Len(stdout) = 6
    /\ \A k \in DOMAIN stdout : stdout[k].text = "COP"
    /\ Cardinality({j \in AfterSave : trace[j] = "carnot_cop_heating"}) = 6

====
